---- MODULE Spec2Model ----
(***************************************************************************)
(* Model of the maintenance-plan batch: src/test.py (the driver loop),     *)
(* src/function.py (plan_mantto, sumafecha) and src/database.py (the       *)
(* Database accessor).                                                     *)
(*                                                                         *)
(* Representation of Python values:                                        *)
(*   - a nullable column value is a sequence: <<>> is None (SQL NULL),     *)
(*     <<v>> is the int v; isinstance(x, int) is Len(x) = 1;               *)
(*   - a date text "YYYY-MM-DD" is the triple <<Y, M, D>> of its fields;   *)
(*     strptime validates the fields and yields a day ordinal, str() of a  *)
(*     datetime turns an ordinal back into fields;                         *)
(*   - an exception is the name of its class, "" means none was raised;    *)
(*   - an SQL statement is a record of its verb, column list, table name   *)
(*     and where clause.                                                   *)
(***************************************************************************)
EXTENDS Integers, Sequences, FiniteSets, TLC

VARIABLES
    evaluaciones,   \* server table read by the driver (sequence of rows)
    plan_general,   \* server table plan_mantto_general (sequence of rows)
    hoy,            \* the wall clock's date, as a date text
    ticks,          \* number of midnights passed since the start
    tabla,          \* Database.tabla, the class attribute shared by all instances
    db,             \* the driver's Database instance
    mantto,         \* the Database instance of the latest plan_mantto call
    pc,             \* driver position: "inicio", "peso", "presion", "glucosa", "fin", "error"
    i,              \* loop index of the driver (1-based)
    id_usuario,     \* the driver's variable id_usuario: <<>> while unbound
    salida,         \* lines printed so far
    exc,            \* class name of the exception that ended the batch, "" if none
    consultas,      \* statements executed by the server so far
    llamada         \* record of the latest metric evaluation of the driver

vars == <<evaluaciones, plan_general, hoy, ticks, tabla, db, mantto, pc, i,
          id_usuario, salida, exc, consultas, llamada>>

----------------------------------------------------------------------------
(* Bounds of the model *)

MaxRegistros == 2
MaxTicks == 1
MaxDias == 2
MaxOps == 4

----------------------------------------------------------------------------
(* Python values *)

None == <<>>

isinstance_int(x) == Len(x) = 1

----------------------------------------------------------------------------
(* The calendar of datetime, as sumafecha uses it *)

EsBisiesto(y) == (y % 4 = 0) /\ ((y % 100 # 0) \/ (y % 400 = 0))

DiasDelMes(y, m) ==
    IF m = 2 THEN (IF EsBisiesto(y) THEN 29 ELSE 28)
    ELSE IF m \in {4, 6, 9, 11} THEN 30 ELSE 31

RECURSIVE DiasAntesDelMes(_, _)
DiasAntesDelMes(y, m) ==
    IF m <= 1 THEN 0 ELSE DiasAntesDelMes(y, m - 1) + DiasDelMes(y, m - 1)

DiasAntesDelAnio(y) ==
    (y - 1) * 365 + ((y - 1) \div 4) - ((y - 1) \div 100) + ((y - 1) \div 400)

\* datetime.datetime.strptime(fecha, "%Y-%m-%d") accepts the text
FechaValida(f) ==
    /\ Len(f) = 3
    /\ f[1] \in 1..9999
    /\ f[2] \in 1..12
    /\ f[3] \in 1..DiasDelMes(f[1], f[2])

\* the parsed date as a proleptic Gregorian ordinal
strptime(f) == DiasAntesDelAnio(f[1]) + DiasAntesDelMes(f[1], f[2]) + f[3]

RECURSIVE AnioDe(_, _)
AnioDe(n, y) ==
    IF n <= DiasAntesDelAnio(y) THEN AnioDe(n, y - 1)
    ELSE IF n > DiasAntesDelAnio(y + 1) THEN AnioDe(n, y + 1)
    ELSE y

RECURSIVE MesDe(_, _, _)
MesDe(resto, y, m) ==
    IF resto > DiasDelMes(y, m) THEN MesDe(resto - DiasDelMes(y, m), y, m + 1)
    ELSE <<y, m, resto>>

\* str(datetime)[0:10]: the date fields of an ordinal
str10(n) ==
    LET y == AnioDe(n, (n \div 366) + 1)
    IN  MesDe(n - DiasAntesDelAnio(y), y, 1)

\* sumafecha with the interval subtracted instead of added
sumafecha_Resta(fecha, dias_repeticion, fecha_del_reloj) ==
    IF ~FechaValida(fecha) THEN [exc |-> "ValueError", val |-> 0]
    ELSE
        LET Date == strptime(fecha)
            EndDate == str10(Date - dias_repeticion)
            a == strptime(EndDate)
            fechaactual == strptime(fecha_del_reloj)
        IN  [exc |-> "", val |-> a - fechaactual]

\* sumafecha with the difference taken from today to the due date's past
sumafecha_Invertida(fecha, dias_repeticion, fecha_del_reloj) ==
    IF ~FechaValida(fecha) THEN [exc |-> "ValueError", val |-> 0]
    ELSE
        LET Date == strptime(fecha)
            EndDate == str10(Date + dias_repeticion)
            a == strptime(EndDate)
            fechaactual == strptime(fecha_del_reloj)
        IN  [exc |-> "", val |-> fechaactual - a]

\* sumafecha with the parser's error caught and 0 returned
sumafecha_Tolerante(fecha, dias_repeticion, fecha_del_reloj) ==
    IF ~FechaValida(fecha) THEN [exc |-> "", val |-> 0]
    ELSE
        LET Date == strptime(fecha)
            EndDate == str10(Date + dias_repeticion)
            a == strptime(EndDate)
            fechaactual == strptime(fecha_del_reloj)
        IN  [exc |-> "", val |-> a - fechaactual]

\* what sumafecha computes: days from today to fecha + dias_repeticion
sumafecha(fecha, dias_repeticion, fecha_del_reloj) ==
    IF ~FechaValida(fecha) THEN [exc |-> "ValueError", val |-> 0]
    ELSE
        LET Date == strptime(fecha)
            EndDate == str10(Date + dias_repeticion)
            a == strptime(EndDate)
            fechaactual == strptime(fecha_del_reloj)
        IN  [exc |-> "", val |-> a - fechaactual]

----------------------------------------------------------------------------
(* The database server: the two tables and the statements run on them *)

CamposEval ==
    "id_usuario,eval_peso,fecha_peso,eval_estatura,eval_presion,fecha_sistolica,eval_glucosa,fecha_glucosa"

CamposPlan == "medicion,evaluacion,dias_repeticion"

FechasNoNulas == [clase |-> "fechas_no_nulas"]

\* the empty where clause
SinWhere == [clase |-> "todas"]

\* the where clause names only columns of the table
WhereValido(nombre, where) ==
    \/ where.clase = "todas" /\ nombre \in {"evaluaciones", "plan_mantto_general"}
    \/ where.clase = "fechas_no_nulas" /\ nombre = "evaluaciones"
    \/ where.clase = "regla" /\ nombre = "plan_mantto_general"

\* a row satisfies a valid where clause
Cumple(r, where) ==
    IF where.clase = "fechas_no_nulas" THEN
        /\ r.fecha_peso # None
        /\ r.fecha_sistolica # None
        /\ r.fecha_glucosa # None
    ELSE IF where.clase = "regla" THEN
        /\ r.medicion = where.medicion
        /\ r.evaluacion = where.evaluacion
    ELSE TRUE

\* the rows of a table that a where clause keeps; the clause names columns
\* that the table must have
Filtra(filas, nombre, where) ==
    IF WhereValido(nombre, where) THEN
        [ok |-> TRUE, filas |-> SelectSeq(filas, LAMBDA r: Cumple(r, where))]
    ELSE [ok |-> FALSE, filas |-> <<>>]

\* the select list applied to the kept rows ("*" is every column)
Proyecta(filas, nombre, campos) ==
    IF nombre = "evaluaciones" /\ campos \in {CamposEval, "*"} THEN
        [ok |-> TRUE, filas |-> filas]
    ELSE IF nombre = "plan_mantto_general" /\ campos \in {CamposPlan, "*"} THEN
        [ok |-> TRUE, filas |-> filas]
    ELSE IF nombre = "plan_mantto_general" /\ campos = "dias_repeticion" THEN
        [ok |-> TRUE,
         filas |-> [k \in 1..Len(filas) |->
                       [dias_repeticion |-> filas[k].dias_repeticion]]]
    ELSE [ok |-> FALSE, filas |-> <<>>]

\* the rows of the table a statement names
FilasDe(nombre, ent) ==
    IF nombre = "evaluaciones" THEN ent.evaluaciones
    ELSE IF nombre = "plan_mantto_general" THEN ent.plan
    ELSE <<>>

\* the tables with the rows of one of them replaced
ConFilas(nombre, filas, ent) ==
    [evaluaciones |-> IF nombre = "evaluaciones" THEN filas ELSE ent.evaluaciones,
     plan |-> IF nombre = "plan_mantto_general" THEN filas ELSE ent.plan]

\* the server runs a statement: whether it succeeds, whether the driver
\* hands back a pgqueryobject (a statement that returns rows) or a count,
\* the rows, and the tables afterwards
Ejecuta(sentencia, ent) ==
    LET nombre == sentencia.nombre
        filas == FilasDe(nombre, ent)
        igual == [ok |-> FALSE, objeto |-> FALSE, filas |-> <<>>,
                  evaluaciones |-> ent.evaluaciones, plan |-> ent.plan]
        hecho(objeto, devueltas, nuevas) ==
            [ok |-> TRUE, objeto |-> objeto, filas |-> devueltas,
             evaluaciones |-> ConFilas(nombre, nuevas, ent).evaluaciones,
             plan |-> ConFilas(nombre, nuevas, ent).plan]
    IN  IF sentencia.verbo = "SELECT" THEN
            LET f == Filtra(filas, nombre, sentencia.where)
                p == Proyecta(f.filas, nombre, sentencia.campos)
            IN  IF f.ok /\ p.ok THEN hecho(TRUE, p.filas, filas) ELSE igual
        ELSE IF sentencia.verbo = "DELETE" THEN
            IF WhereValido(nombre, sentencia.where)
            THEN hecho(FALSE, <<>>,
                       SelectSeq(filas, LAMBDA r: ~Cumple(r, sentencia.where)))
            ELSE igual
        ELSE IF sentencia.verbo = "UPDATE" THEN
            IF nombre = "plan_mantto_general" /\ WhereValido(nombre, sentencia.where)
            THEN hecho(FALSE, <<>>,
                       [k \in 1..Len(filas) |->
                           IF Cumple(filas[k], sentencia.where)
                           THEN [filas[k] EXCEPT !.dias_repeticion = sentencia.datos]
                           ELSE filas[k]])
            ELSE igual
        ELSE IF sentencia.verbo = "INSERT" THEN
            IF nombre = "plan_mantto_general" /\ sentencia.campos = CamposPlan
            THEN hecho(sentencia.returning # "",
                       IF sentencia.returning # ""
                       THEN <<[dias_repeticion |-> sentencia.values.dias_repeticion]>>
                       ELSE <<>>,
                       Append(filas, sentencia.values))
            ELSE igual
        ELSE igual

\* conn.query(sentencia): the result, or an error
query(conn, sentencia, ent) ==
    IF conn # "abierta" \/ ent.falla THEN
        [ok |-> FALSE, objeto |-> FALSE, filas |-> <<>>,
         evaluaciones |-> ent.evaluaciones, plan |-> ent.plan]
    ELSE Ejecuta(sentencia, ent)

\* the tables after an operation sent its statements
TablasTras(enviadas, ent) ==
    IF enviadas = <<>> THEN [evaluaciones |-> ent.evaluaciones, plan |-> ent.plan]
    ELSE LET r == query("abierta", enviadas[1], ent)
         IN  [evaluaciones |-> r.evaluaciones, plan |-> r.plan]

----------------------------------------------------------------------------
(* src/database.py *)

\* Database(tabla, id_, campos): the class attribute after the call, the new
\* instance, and the exception of a constructor that returned False
Database__init__(nombre, id_, campos, ent) ==
    [tabla |-> [nombre |-> nombre, id |-> id_, campos |-> campos],
     self |-> [conexion |-> IF ent.conecta THEN "abierta" ELSE "ninguna",
               rows |-> <<>>, numfilas |-> None, row |-> <<>>],
     exc |-> IF ent.conecta THEN "" ELSE "TypeError"]

\* self.agregar(values): INSERT without a RETURNING clause
Database_agregar(self, tabla_, values, ent) ==
    LET conn == self.conexion
        sentencia == [verbo |-> "INSERT", campos |-> tabla_.campos,
                      nombre |-> tabla_.nombre, values |-> values,
                      returning |-> ""]
        resultado == query(conn, sentencia, ent)
        enviadas == IF conn = "abierta" THEN <<sentencia>> ELSE <<>>
    IN  IF ~resultado.ok THEN
            [self |-> self, ret |-> FALSE, enviadas |-> enviadas]
        ELSE
            [self |-> [self EXCEPT !.conexion = "cerrada"],
             ret |-> TRUE, enviadas |-> enviadas]

\* self.add(values, returning): resultado.dictresult() comes before
\* conn.close(), and the result of an INSERT that returns no rows has no
\* dictresult()
Database_add(self, tabla_, values, returning, ent) ==
    LET conn == self.conexion
        sentencia == [verbo |-> "INSERT", campos |-> tabla_.campos,
                      nombre |-> tabla_.nombre, values |-> values,
                      returning |-> returning]
        resultado == query(conn, sentencia, ent)
        enviadas == IF conn = "abierta" THEN <<sentencia>> ELSE <<>>
    IN  IF ~resultado.ok \/ ~resultado.objeto THEN
            [self |-> self, ret |-> FALSE, enviadas |-> enviadas]
        ELSE
            [self |-> [self EXCEPT !.row = resultado.filas,
                                   !.conexion = "cerrada"],
             ret |-> TRUE, enviadas |-> enviadas]

\* self.modificar(datos, where)
Database_modificar(self, tabla_, datos, where, ent) ==
    LET conn == self.conexion
        sentencia == [verbo |-> "UPDATE", nombre |-> tabla_.nombre,
                      datos |-> datos, where |-> where]
        resultado == query(conn, sentencia, ent)
        enviadas == IF conn = "abierta" THEN <<sentencia>> ELSE <<>>
    IN  IF ~resultado.ok THEN
            [self |-> self, ret |-> FALSE, enviadas |-> enviadas]
        ELSE
            [self |-> [self EXCEPT !.conexion = "cerrada"],
             ret |-> TRUE, enviadas |-> enviadas]

\* self.eliminar(where)
Database_eliminar(self, tabla_, where, ent) ==
    LET conn == self.conexion
        sentencia == [verbo |-> "DELETE", nombre |-> tabla_.nombre,
                      where |-> where]
        resultado == query(conn, sentencia, ent)
        enviadas == IF conn = "abierta" THEN <<sentencia>> ELSE <<>>
    IN  IF ~resultado.ok THEN
            [self |-> self, ret |-> FALSE, enviadas |-> enviadas]
        ELSE
            [self |-> [self EXCEPT !.conexion = "cerrada"],
             ret |-> TRUE, enviadas |-> enviadas]

\* self.consultar(where)
Database_consultar(self, tabla_, where, ent) ==
    LET conn == self.conexion
        sentencia == [verbo |-> "SELECT", campos |-> "*",
                      nombre |-> tabla_.nombre, where |-> where]
        resultado == query(conn, sentencia, ent)
        enviadas == IF conn = "abierta" THEN <<sentencia>> ELSE <<>>
    IN  IF ~resultado.ok THEN
            [self |-> self, ret |-> FALSE, enviadas |-> enviadas]
        ELSE
            [self |-> [self EXCEPT !.conexion = "cerrada"],
             ret |-> Len(resultado.filas) > 0, enviadas |-> enviadas]

\* self.getqry(sentencia): the result of a statement that returns no rows
\* has no ntuples(), and the connection is closed by then
Database_getqry(self, sentencia, ent) ==
    LET conn == self.conexion
        resultado == query(conn, sentencia, ent)
        enviadas == IF conn = "abierta" THEN <<sentencia>> ELSE <<>>
    IN  IF ~resultado.ok THEN
            [self |-> self, ret |-> FALSE, enviadas |-> enviadas]
        ELSE IF resultado.objeto /\ Len(resultado.filas) > 0 THEN
            [self |-> [self EXCEPT !.conexion = "cerrada",
                                   !.rows = resultado.filas],
             ret |-> TRUE, enviadas |-> enviadas]
        ELSE
            [self |-> [self EXCEPT !.conexion = "cerrada"],
             ret |-> FALSE, enviadas |-> enviadas]

\* get storing the rows without their count, as getqry does
Database_get_SinNumfilas(self, tabla_, where, ent) ==
    LET conn == self.conexion
        sentencia == [verbo |-> "SELECT", campos |-> tabla_.campos,
                      nombre |-> tabla_.nombre, where |-> where]
        resultado == query(conn, sentencia, ent)
        enviadas == IF conn = "abierta" THEN <<sentencia>> ELSE <<>>
    IN  IF ~resultado.ok THEN
            [self |-> self, ret |-> FALSE, enviadas |-> enviadas]
        ELSE IF Len(resultado.filas) > 0 THEN
            [self |-> [self EXCEPT !.conexion = "cerrada",
                                   !.rows = resultado.filas],
             ret |-> TRUE, enviadas |-> enviadas]
        ELSE
            [self |-> [self EXCEPT !.conexion = "cerrada"],
             ret |-> FALSE, enviadas |-> enviadas]

\* get building "DELETE FROM" where the code builds "SELECT ... FROM": the
\* count the driver hands back has no ntuples()
Database_get_Borra(self, tabla_, where, ent) ==
    LET conn == self.conexion
        sentencia == [verbo |-> "DELETE", nombre |-> tabla_.nombre, where |-> where]
        resultado == query(conn, sentencia, ent)
        enviadas == IF conn = "abierta" THEN <<sentencia>> ELSE <<>>
    IN  IF ~resultado.ok THEN
            [self |-> self, ret |-> FALSE, enviadas |-> enviadas]
        ELSE
            [self |-> [self EXCEPT !.conexion = "cerrada"],
             ret |-> FALSE, enviadas |-> enviadas]

\* self.get(where): the instance after the call, the value returned and the
\* statements sent to the server
Database_get(self, tabla_, where, ent) ==
    LET conn == self.conexion
        sentencia == [verbo |-> "SELECT", campos |-> tabla_.campos,
                      nombre |-> tabla_.nombre, where |-> where]
        resultado == query(conn, sentencia, ent)
        enviadas == IF conn = "abierta" THEN <<sentencia>> ELSE <<>>
    IN  IF ~resultado.ok THEN
            [self |-> self, ret |-> FALSE, enviadas |-> enviadas]
        ELSE IF Len(resultado.filas) > 0 THEN
            [self |-> [self EXCEPT !.conexion = "cerrada",
                                   !.rows = resultado.filas,
                                   !.numfilas = <<Len(resultado.filas)>>],
             ret |-> TRUE, enviadas |-> enviadas]
        ELSE
            [self |-> [self EXCEPT !.conexion = "cerrada"],
             ret |-> FALSE, enviadas |-> enviadas]

----------------------------------------------------------------------------
(* src/function.py *)

\* rows[-1] instead of rows[0]
UltimaFila(rows) == rows[Len(rows)]

\* rows[0] of the instance: the row whose interval plan_mantto uses
PrimeraFila(rows) == rows[1]

\* the flag with "sumfec > 0" instead of "sumfec < 0"
Atraso_Invertido(sumfec) == IF sumfec > 0 THEN "1" ELSE "0"

\* the flag with "sumfec <= 0" instead of "sumfec < 0"
Atraso_DueTodayOverdue(sumfec) == IF sumfec <= 0 THEN "1" ELSE "0"

\* the flag plan_mantto derives from the result of sumafecha
Atraso(sumfec) == IF sumfec < 0 THEN "1" ELSE "0"

\* the else branch returning the text of False to the driver
SinRegla_DevuelveFalse == [ret |-> <<"False">>, exc |-> ""]

\* the else branch of plan_mantto, "return false": the name false is not
\* defined, so the statement raises instead of returning
SinRegla == [ret |-> <<>>, exc |-> "NameError"]

\* plan_mantto keeping the instance of the previous call and its rows when
\* that call asked for the same pair
plan_mantto_ConCache(tipo_medicion, nivel_medicion, fecha, ent) ==
    LET where_mantto == [clase |-> "regla", medicion |-> tipo_medicion,
                         evaluacion |-> nivel_medicion]
        guardada == /\ mantto.rows # <<>>
                    /\ consultas # <<>>
                    /\ consultas[Len(consultas)].where = where_mantto
        c == Database__init__("plan_mantto_general", "", "dias_repeticion", ent)
        g == IF guardada THEN [self |-> mantto, ret |-> TRUE, enviadas |-> <<>>]
             ELSE Database_get(c.self, c.tabla, where_mantto, ent)
    IN  IF ~guardada /\ c.exc # "" THEN
            [ret |-> <<>>, exc |-> c.exc, tabla |-> c.tabla, mantto |-> c.self,
             enviadas |-> <<>>]
        ELSE IF g.ret = TRUE THEN
            LET dias == PrimeraFila(g.self.rows).dias_repeticion
                sumfec == sumafecha(fecha, dias, ent.hoy)
            IN  IF sumfec.exc # "" THEN
                    [ret |-> <<>>, exc |-> sumfec.exc, tabla |-> c.tabla,
                     mantto |-> g.self, enviadas |-> g.enviadas]
                ELSE
                    [ret |-> <<Atraso(sumfec.val)>>, exc |-> "", tabla |-> c.tabla,
                     mantto |-> g.self, enviadas |-> g.enviadas]
        ELSE
            [ret |-> SinRegla.ret, exc |-> SinRegla.exc, tabla |-> c.tabla,
             mantto |-> g.self, enviadas |-> g.enviadas]

\* plan_mantto(tipo_medicion, nivel_medicion, fecha, id_usuario): the value
\* returned (<<>> when an exception leaves the function), the exception, and
\* the effects on the class attribute, the instance and the server
plan_mantto(tipo_medicion, nivel_medicion, fecha, ent) ==
    LET where_mantto == [clase |-> "regla", medicion |-> tipo_medicion,
                         evaluacion |-> nivel_medicion]
        c == Database__init__("plan_mantto_general", "", "dias_repeticion", ent)
        g == Database_get(c.self, c.tabla, where_mantto, ent)
    IN  IF c.exc # "" THEN
            [ret |-> <<>>, exc |-> c.exc, tabla |-> c.tabla, mantto |-> c.self,
             enviadas |-> <<>>]
        ELSE IF g.ret = TRUE THEN
            LET dias == PrimeraFila(g.self.rows).dias_repeticion
                sumfec == sumafecha(fecha, dias, ent.hoy)
            IN  IF sumfec.exc # "" THEN
                    [ret |-> <<>>, exc |-> sumfec.exc, tabla |-> c.tabla,
                     mantto |-> g.self, enviadas |-> g.enviadas]
                ELSE
                    [ret |-> <<Atraso(sumfec.val)>>, exc |-> "", tabla |-> c.tabla,
                     mantto |-> g.self, enviadas |-> g.enviadas]
        ELSE
            [ret |-> SinRegla.ret, exc |-> SinRegla.exc, tabla |-> c.tabla,
             mantto |-> g.self, enviadas |-> g.enviadas]

----------------------------------------------------------------------------
(* src/test.py *)

\* fecha[0:10]: the date part of a column text, which may carry a time part
Corte10(texto) == SubSeq(texto, 1, 3)

\* str(id_usuario) + ' ' + metric name + flag
Linea(idu, metrica, row_mantto) ==
    [id_usuario |-> idu, metrica |-> metrica, atraso |-> row_mantto]

\* a block without the isinstance test: a null level is looked up as 0
Bloque_SinIsinstance(tipo, nivel, fecha, idu, ent) ==
    IF idu = <<>> THEN
        [entra |-> TRUE, llama |-> FALSE, ret |-> <<>>, exc |-> "NameError",
         tabla |-> tabla, mantto |-> mantto, enviadas |-> <<>>]
    ELSE
        LET r == plan_mantto(tipo, IF nivel = None THEN 0 ELSE nivel[1],
                             Corte10(fecha), ent)
        IN  [entra |-> TRUE, llama |-> TRUE, ret |-> r.ret, exc |-> r.exc,
             tabla |-> r.tabla, mantto |-> r.mantto, enviadas |-> r.enviadas]

\* the body of one "if isinstance(...)" block of the loop for the metrics
\* that do not assign id_usuario: skipped when the level is not an int,
\* NameError when id_usuario is still unbound at the call
Bloque(tipo, nivel, fecha, idu, ent) ==
    IF ~isinstance_int(nivel) THEN
        [entra |-> FALSE, llama |-> FALSE, ret |-> <<>>, exc |-> "",
         tabla |-> tabla, mantto |-> mantto, enviadas |-> <<>>]
    ELSE IF idu = <<>> THEN
        [entra |-> TRUE, llama |-> FALSE, ret |-> <<>>, exc |-> "NameError",
         tabla |-> tabla, mantto |-> mantto, enviadas |-> <<>>]
    ELSE
        LET r == plan_mantto(tipo, nivel[1], Corte10(fecha), ent)
        IN  [entra |-> TRUE, llama |-> TRUE, ret |-> r.ret, exc |-> r.exc,
             tabla |-> r.tabla, mantto |-> r.mantto, enviadas |-> r.enviadas]

Entorno(conecta, falla) ==
    [evaluaciones |-> evaluaciones, plan |-> plan_general, hoy |-> hoy,
     conecta |-> conecta, falla |-> falla]

SinLlamada ==
    [i |-> 0, metrica |-> "", id_fila |-> 0, nivel |-> None, fecha |-> <<>>,
     hoy |-> <<>>, tipo |-> 0, entra |-> FALSE, llama |-> FALSE, ret |-> <<>>,
     exc |-> "", filas |-> <<>>, conecta |-> TRUE, falla |-> FALSE,
     salida_antes |-> <<>>, consultas_antes |-> <<>>, inicio_registro |-> 0,
     dias |-> <<>>, sumfec |-> <<>>]

\* the effect of a block on the state of the driver
Efecto(metrica, tipo, nivel, fecha, idu, b, ent, sig_pc, sig_i) ==
    /\ tabla' = b.tabla
    /\ mantto' = b.mantto
    /\ consultas' = consultas \o b.enviadas
    /\ id_usuario' = idu
    /\ llamada' = [i |-> i, metrica |-> metrica, id_fila |-> db.rows[i].id_usuario,
                   nivel |-> nivel, fecha |-> fecha, hoy |-> hoy, tipo |-> tipo,
                   entra |-> b.entra, llama |-> b.llama, ret |-> b.ret,
                   exc |-> b.exc,
                   filas |-> IF b.llama THEN b.mantto.rows ELSE <<>>,
                   conecta |-> (b.llama => ent.conecta),
                   falla |-> (b.llama /\ ent.conecta /\ ent.falla),
                   salida_antes |-> salida, consultas_antes |-> consultas,
                   inicio_registro |-> IF metrica = "peso" THEN Len(salida)
                                       ELSE llamada.inicio_registro,
                   dias |-> <<>>, sumfec |-> <<>>]
    /\ IF b.exc # "" THEN
           /\ exc' = b.exc
           /\ pc' = "error"
           /\ UNCHANGED <<salida, i>>
       ELSE
           /\ salida' = IF b.entra THEN Append(salida, Linea(idu[1], metrica, b.ret[1]))
                        ELSE salida
           /\ pc' = sig_pc
           /\ i' = sig_i
           /\ UNCHANGED exc
    /\ evaluaciones' = TablasTras(b.enviadas, ent).evaluaciones
    /\ plan_general' = TablasTras(b.enviadas, ent).plan
    /\ UNCHANGED <<hoy, ticks, db>>

\* lines 8-12: the driver builds its instance and fetches the records
Inicio ==
    /\ pc = "inicio"
    /\ \E conecta \in BOOLEAN, falla \in BOOLEAN :
        LET ent == Entorno(conecta, falla)
            c == Database__init__("evaluaciones", "", CamposEval, ent)
            g == Database_get(c.self, c.tabla, FechasNoNulas, ent)
        IN  /\ tabla' = c.tabla
            /\ IF c.exc # "" THEN
                   /\ db' = c.self
                   /\ exc' = c.exc
                   /\ pc' = "error"
                   /\ UNCHANGED <<consultas, i, evaluaciones, plan_general>>
               ELSE
                   /\ db' = g.self
                   /\ consultas' = consultas \o g.enviadas
                   /\ evaluaciones' = TablasTras(g.enviadas, ent).evaluaciones
                   /\ plan_general' = TablasTras(g.enviadas, ent).plan
                   /\ pc' = IF g.ret = TRUE THEN "peso" ELSE "fin"
                   /\ i' = IF g.ret = TRUE THEN 1 ELSE i
                   /\ UNCHANGED exc
    /\ UNCHANGED <<hoy, ticks, mantto, id_usuario, salida, llamada>>

\* lines 18-25: the weight block, which assigns id_usuario before the call
EvalPeso ==
    /\ pc = "peso"
    /\ \E conecta \in BOOLEAN, falla \in BOOLEAN :
        LET ent == Entorno(conecta, falla)
            fila == db.rows[i]
            idu == IF isinstance_int(fila.eval_peso) THEN <<fila.id_usuario>>
                   ELSE id_usuario
            b == Bloque(1, fila.eval_peso, fila.fecha_peso, idu, ent)
        IN  Efecto("peso", 1, fila.eval_peso, fila.fecha_peso, idu, b, ent,
                   "presion", i)

\* the pressure block reading the weight's level and date columns
EvalPresion_ColumnasPeso ==
    /\ pc = "presion"
    /\ \E conecta \in BOOLEAN, falla \in BOOLEAN :
        LET ent == Entorno(conecta, falla)
            fila == db.rows[i]
            b == Bloque(3, fila.eval_peso, fila.fecha_peso, id_usuario, ent)
        IN  Efecto("presion", 3, fila.eval_peso, fila.fecha_peso,
                   id_usuario, b, ent, "glucosa", i)

\* lines 26-30: the pressure block
EvalPresion ==
    /\ pc = "presion"
    /\ \E conecta \in BOOLEAN, falla \in BOOLEAN :
        LET ent == Entorno(conecta, falla)
            fila == db.rows[i]
            b == Bloque(3, fila.eval_presion, fila.fecha_sistolica, id_usuario, ent)
        IN  Efecto("presion", 3, fila.eval_presion, fila.fecha_sistolica,
                   id_usuario, b, ent, "glucosa", i)

\* lines 32-36: the glucose block, then the next record or the end
EvalGlucosa ==
    /\ pc = "glucosa"
    /\ \E conecta \in BOOLEAN, falla \in BOOLEAN :
        LET ent == Entorno(conecta, falla)
            fila == db.rows[i]
            total == db.numfilas[1]
            b == Bloque(4, fila.eval_glucosa, fila.fecha_glucosa, id_usuario, ent)
        IN  Efecto("glucosa", 4, fila.eval_glucosa, fila.fecha_glucosa,
                   id_usuario, b, ent,
                   IF i + 1 > total THEN "fin" ELSE "peso", i + 1)

----------------------------------------------------------------------------
(* The environment: the wall clock and the contents of the tables *)

\* the day after a date
DiaSiguiente(f) ==
    IF f[3] < DiasDelMes(f[1], f[2]) THEN <<f[1], f[2], f[3] + 1>>
    ELSE IF f[2] < 12 THEN <<f[1], f[2] + 1, 1>>
    ELSE <<f[1] + 1, 1, 1>>

\* midnight passes while the batch runs
Tick ==
    /\ pc \in {"inicio", "peso", "presion", "glucosa"}
    /\ ticks < MaxTicks
    /\ ticks' = ticks + 1
    /\ hoy' = DiaSiguiente(hoy)
    /\ UNCHANGED <<evaluaciones, plan_general, tabla, db, mantto, pc, i,
                   id_usuario, salida, exc, consultas, llamada>>

Regla(m, e, d) == [medicion |-> m, evaluacion |-> e, dias_repeticion |-> d]

\* rule tables: complete, with two rows for the key (1, 1) in both orders,
\* and without a rule for the key (4, 1)
Planes ==
    { <<Regla(1, 1, 30), Regla(3, 2, 15), Regla(4, 1, 15)>>,
      <<Regla(1, 1, 30), Regla(1, 1, 45), Regla(3, 2, 15), Regla(4, 1, 15)>>,
      <<Regla(1, 1, 45), Regla(1, 1, 30), Regla(3, 2, 15), Regla(4, 1, 15)>>,
      <<Regla(1, 1, 30), Regla(3, 2, 15)>> }

Fila(idu, ep, fp, es, fs, eg, fg) ==
    [id_usuario |-> idu, eval_peso |-> ep, fecha_peso |-> fp,
     eval_estatura |-> <<1>>, eval_presion |-> es, fecha_sistolica |-> fs,
     eval_glucosa |-> eg, fecha_glucosa |-> fg]

FechaPeso == <<2020, 1, 1>>
FechaSistolica == <<2020, 1, 17, 0>>
FechaGlucosa == <<2020, 1, 20>>
FechaMala == <<2020, 2, 30>>

\* the rows a table may hold at position k: any combination of levels with
\* well-formed dates, or all levels present and one date malformed or null
Filas(k) ==
    { Fila(40 + k, ep, FechaPeso, es, FechaSistolica, eg, FechaGlucosa) :
        ep \in {None, <<1>>}, es \in {None, <<2>>}, eg \in {None, <<1>>} }
    \cup
    { Fila(40 + k, <<1>>, FechaMala, <<2>>, FechaSistolica, <<1>>, FechaGlucosa),
      Fila(40 + k, <<1>>, FechaPeso, <<2>>, FechaMala, <<1>>, FechaGlucosa),
      Fila(40 + k, <<1>>, FechaPeso, <<2>>, FechaSistolica, <<1>>, FechaMala),
      Fila(40 + k, <<1>>, FechaPeso, <<2>>, FechaSistolica, <<1>>, None) }

RECURSIVE Tablas(_)
Tablas(n) ==
    IF n = 0 THEN {<<>>}
    ELSE Tablas(n - 1) \cup
         { Append(t, f) : t \in {u \in Tablas(n - 1) : Len(u) = n - 1},
                          f \in Filas(n) }

SinInstancia ==
    [conexion |-> "ninguna", rows |-> <<>>, numfilas |-> None, row |-> <<>>]

Init ==
    /\ evaluaciones \in Tablas(MaxRegistros)
    /\ plan_general \in Planes
    /\ hoy = <<2020, 2, 1>>
    /\ ticks = 0
    /\ tabla = [nombre |-> "", id |-> "", campos |-> <<>>]
    /\ db = SinInstancia
    /\ mantto = SinInstancia
    /\ pc = "inicio"
    /\ i = 0
    /\ id_usuario = <<>>
    /\ salida = <<>>
    /\ exc = ""
    /\ consultas = <<>>
    /\ llamada = SinLlamada

Next == Inicio \/ EvalPeso \/ EvalPresion \/ EvalGlucosa \/ Tick

Spec == Init /\ [][Next]_vars

----------------------------------------------------------------------------
(* plan_mantto on its own: one call with arguments, rule table and clock   *)
(* drawn from sets around the ends of months and years                     *)

\* the day before a date
DiaAnterior(f) ==
    IF f[3] > 1 THEN <<f[1], f[2], f[3] - 1>>
    ELSE IF f[2] > 1 THEN <<f[1], f[2] - 1, DiasDelMes(f[1], f[2] - 1)>>
    ELSE <<f[1] - 1, 12, 31>>

\* the first day of the month after that of a date
MesSiguiente(f) == IF f[2] < 12 THEN <<f[1], f[2] + 1, 1>> ELSE <<f[1] + 1, 1, 1>>

\* a date moved n days along the calendar, a month end at a time
RECURSIVE SumaDias(_, _)
SumaDias(f, n) ==
    IF n = 0 THEN f
    ELSE IF n > 0 THEN
        LET resto == DiasDelMes(f[1], f[2]) - f[3]
        IN  IF n <= resto THEN <<f[1], f[2], f[3] + n>>
            ELSE SumaDias(MesSiguiente(f), n - resto - 1)
    ELSE
        IF 0 - n < f[3] THEN <<f[1], f[2], f[3] + n>>
        ELSE SumaDias(DiaAnterior(<<f[1], f[2], 1>>), n + f[3])

\* f is an earlier date than g
Antes(f, g) ==
    \/ f[1] < g[1]
    \/ f[1] = g[1] /\ f[2] < g[2]
    \/ f[1] = g[1] /\ f[2] = g[2] /\ f[3] < g[3]

Ventana(f) == { SumaDias(f, k) : k \in 0..(2 * MaxDias + 2) }

FechasPlan ==
    Ventana(<<2019, 12, 29>>) \cup Ventana(<<2020, 2, 26>>)
        \cup Ventana(<<2019, 2, 26>>) \cup {<<2020, 1, 31>>, <<2020, 2, 5>>}

TextosPlan == FechasPlan \cup {<<2019, 2, 29>>, <<2020, 13, 1>>, <<2020, 4, 31>>}

DiasPlan == ((0 - MaxDias)..MaxDias) \cup {30}

PlanesPlan ==
    {<<>>} \cup { <<Regla(1, 1, d)>> : d \in DiasPlan }
           \cup { <<Regla(1, 1, p[1]), Regla(1, 1, p[2])>> :
                      p \in { q \in DiasPlan \X {0, 30} : q[1] # q[2] } }

InitPlan ==
    /\ evaluaciones = <<>>
    /\ plan_general \in PlanesPlan
    /\ hoy \in FechasPlan
    /\ ticks = 0
    /\ tabla = [nombre |-> "", id |-> "", campos |-> <<>>]
    /\ db = SinInstancia
    /\ mantto = SinInstancia
    /\ pc = "plan"
    /\ i = 0
    /\ id_usuario = <<>>
    /\ salida = <<>>
    /\ exc = ""
    /\ consultas = <<>>
    /\ llamada = SinLlamada

\* one call plan_mantto(tipo, nivel, fecha, id_usuario)
LlamaPlan ==
    /\ pc = "plan"
    /\ \E clave \in {<<1, 1>>, <<3, 2>>}, fecha \in TextosPlan,
          conecta \in BOOLEAN, falla \in BOOLEAN :
        LET ent == Entorno(conecta, falla)
            tipo == clave[1]
            nivel == clave[2]
            r == plan_mantto(tipo, nivel, fecha, ent)
        IN  /\ tabla' = r.tabla
            /\ mantto' = r.mantto
            /\ consultas' = consultas \o r.enviadas
            /\ exc' = r.exc
            /\ llamada' = [SinLlamada EXCEPT
                              !.nivel = <<nivel>>, !.fecha = fecha, !.hoy = hoy,
                              !.tipo = tipo, !.entra = TRUE, !.llama = TRUE,
                              !.ret = r.ret, !.exc = r.exc,
                              !.filas = r.mantto.rows, !.conecta = conecta,
                              !.falla = conecta /\ falla]
            /\ evaluaciones' = TablasTras(r.enviadas, ent).evaluaciones
            /\ plan_general' = TablasTras(r.enviadas, ent).plan
    /\ pc' = "hecho"
    /\ UNCHANGED <<hoy, ticks, db, i, id_usuario, salida>>

\* one call sumafecha(fecha, dias_repeticion) with the interval of a rule row
LlamaSuma ==
    /\ pc = "plan"
    /\ \E fecha \in TextosPlan, k \in 1..Len(plan_general) :
        LET dias == plan_general[k].dias_repeticion
            r == sumafecha(fecha, dias, hoy)
        IN  /\ exc' = r.exc
            /\ llamada' = [SinLlamada EXCEPT
                              !.fecha = fecha, !.hoy = hoy, !.dias = <<dias>>,
                              !.sumfec = IF r.exc = "" THEN <<r.val>> ELSE <<>>,
                              !.exc = r.exc]
    /\ pc' = "hecho"
    /\ UNCHANGED <<evaluaciones, plan_general, hoy, ticks, tabla, db, mantto, i,
                   id_usuario, salida, consultas>>

NextPlan == LlamaPlan \/ LlamaSuma

SpecPlan == InitPlan /\ [][NextPlan]_vars

----------------------------------------------------------------------------
(* The operations of Database on two instances, db and mantto, in any order.
   i counts the operations; llamada records the latest one. *)

Instancia(x) == IF x = "db" THEN db ELSE mantto

Descriptores ==
    { [nombre |-> "evaluaciones", id |-> "", campos |-> CamposEval],
      [nombre |-> "plan_mantto_general", id |-> "", campos |-> "dias_repeticion"],
      [nombre |-> "plan_mantto_general", id |-> "", campos |-> CamposPlan] }

WheresDb ==
    { [clase |-> "regla", medicion |-> 1, evaluacion |-> 1],
      [clase |-> "regla", medicion |-> 3, evaluacion |-> 2],
      FechasNoNulas, SinWhere }

\* statements a caller hands to getqry
SentenciasDb ==
    { [verbo |-> "SELECT", campos |-> "*", nombre |-> "plan_mantto_general",
       where |-> SinWhere],
      [verbo |-> "SELECT", campos |-> "dias_repeticion",
       nombre |-> "plan_mantto_general",
       where |-> [clase |-> "regla", medicion |-> 3, evaluacion |-> 2]],
      [verbo |-> "DELETE", nombre |-> "plan_mantto_general",
       where |-> [clase |-> "regla", medicion |-> 1, evaluacion |-> 1]] }

SinOperacion ==
    [op |-> "", inst |-> "", ret |-> FALSE, exc |-> "", antes |-> SinInstancia,
     tabla_antes |-> [nombre |-> "", id |-> "", campos |-> <<>>],
     enviadas |-> <<>>, ejecutada |-> FALSE, filas |-> <<>>]

InitDb ==
    /\ evaluaciones \in
          {<<>>, <<Fila(41, <<1>>, FechaPeso, <<2>>, FechaSistolica, <<1>>, FechaGlucosa)>>}
    /\ plan_general \in {<<Regla(1, 1, 30)>>, <<Regla(1, 1, 30), Regla(1, 1, 45)>>}
    /\ hoy = <<2020, 2, 1>>
    /\ ticks = 0
    /\ tabla = [nombre |-> "", id |-> "", campos |-> <<>>]
    /\ db = SinInstancia
    /\ mantto = SinInstancia
    /\ pc = "db"
    /\ i = 0
    /\ id_usuario = <<>>
    /\ salida = <<>>
    /\ exc = ""
    /\ consultas = <<>>
    /\ llamada = SinOperacion

\* x = Database(nombre, id_, campos): a constructor that raises leaves the
\* name x bound to what it was
Construye ==
    /\ pc = "db"
    /\ i < MaxOps
    /\ \E x \in {"db", "mantto"}, d \in Descriptores, conecta \in BOOLEAN :
        LET c == Database__init__(d.nombre, d.id, d.campos, Entorno(conecta, FALSE))
            nueva == IF c.exc = "" THEN c.self ELSE Instancia(x)
        IN  /\ tabla' = c.tabla
            /\ db' = IF x = "db" THEN nueva ELSE db
            /\ mantto' = IF x = "mantto" THEN nueva ELSE mantto
            /\ llamada' = [SinOperacion EXCEPT
                              !.op = "construir", !.inst = x,
                              !.ret = (c.exc = ""), !.exc = c.exc,
                              !.antes = Instancia(x), !.tabla_antes = tabla]
    /\ i' = i + 1
    /\ UNCHANGED <<evaluaciones, plan_general, hoy, ticks, pc, id_usuario,
                   salida, exc, consultas>>

\* the effect of an operation of the instance x that returned r
Opera(x, op, r, ent) ==
    LET servido == IF r.enviadas = <<>>
                   THEN [ok |-> FALSE, filas |-> <<>>]
                   ELSE query("abierta", r.enviadas[1], ent)
    IN  /\ db' = IF x = "db" THEN r.self ELSE db
        /\ mantto' = IF x = "mantto" THEN r.self ELSE mantto
        /\ evaluaciones' = TablasTras(r.enviadas, ent).evaluaciones
        /\ plan_general' = TablasTras(r.enviadas, ent).plan
        /\ llamada' = [SinOperacion EXCEPT
                          !.op = op, !.inst = x, !.ret = r.ret,
                          !.antes = Instancia(x), !.tabla_antes = tabla,
                          !.enviadas = r.enviadas, !.ejecutada = servido.ok,
                          !.filas = servido.filas]
        /\ i' = i + 1
        /\ UNCHANGED <<hoy, ticks, tabla, pc, id_usuario, salida, exc, consultas>>

\* an instance exists and another operation fits in the run
Puede(x) == pc = "db" /\ i < MaxOps /\ Instancia(x).conexion # "ninguna"

Agrega ==
    \E x \in {"db", "mantto"}, falla \in BOOLEAN :
        /\ Puede(x)
        /\ LET ent == Entorno(TRUE, falla)
           IN  Opera(x, "agregar",
                     Database_agregar(Instancia(x), tabla, Regla(1, 1, 7), ent), ent)

Add ==
    \E x \in {"db", "mantto"}, falla \in BOOLEAN,
       returning \in {"", " RETURNING dias_repeticion"} :
        /\ Puede(x)
        /\ LET ent == Entorno(TRUE, falla)
           IN  Opera(x, "add",
                     Database_add(Instancia(x), tabla, Regla(1, 1, 7), returning, ent),
                     ent)

Modifica ==
    \E x \in {"db", "mantto"}, falla \in BOOLEAN, where \in WheresDb :
        /\ Puede(x)
        /\ LET ent == Entorno(TRUE, falla)
           IN  Opera(x, "modificar",
                     Database_modificar(Instancia(x), tabla, 7, where, ent), ent)

Elimina ==
    \E x \in {"db", "mantto"}, falla \in BOOLEAN, where \in WheresDb :
        /\ Puede(x)
        /\ LET ent == Entorno(TRUE, falla)
           IN  Opera(x, "eliminar",
                     Database_eliminar(Instancia(x), tabla, where, ent), ent)

Consulta ==
    \E x \in {"db", "mantto"}, falla \in BOOLEAN, where \in WheresDb :
        /\ Puede(x)
        /\ LET ent == Entorno(TRUE, falla)
           IN  Opera(x, "consultar",
                     Database_consultar(Instancia(x), tabla, where, ent), ent)

Get ==
    \E x \in {"db", "mantto"}, falla \in BOOLEAN, where \in WheresDb :
        /\ Puede(x)
        /\ LET ent == Entorno(TRUE, falla)
           IN  Opera(x, "get", Database_get(Instancia(x), tabla, where, ent), ent)

Getqry ==
    \E x \in {"db", "mantto"}, falla \in BOOLEAN, sentencia \in SentenciasDb :
        /\ Puede(x)
        /\ LET ent == Entorno(TRUE, falla)
           IN  Opera(x, "getqry",
                     Database_getqry(Instancia(x), sentencia, ent), ent)

NextDb ==
    Construye \/ Agrega \/ Add \/ Modifica \/ Elimina \/ Consulta \/ Get \/ Getqry

SpecDb == InitDb /\ [][NextDb]_vars

----------------------------------------------------------------------------
(* Properties *)

Flags == {"0", "1"}

\* the due date fecha + dias lies before the clock's date
Vencida(fecha, dias, fecha_del_reloj) == Antes(SumaDias(fecha, dias), fecha_del_reloj)

FlagDe(fecha, dias, fecha_del_reloj) ==
    IF Vencida(fecha, dias, fecha_del_reloj) THEN "1" ELSE "0"

\* the rows of the rule table with the key (tipo, nivel), in table order
RECURSIVE ReglasDe(_, _, _)
ReglasDe(plan, tipo, nivel) ==
    IF plan = <<>> THEN <<>>
    ELSE (IF Head(plan).medicion = tipo /\ Head(plan).evaluacion = nivel
              THEN <<Head(plan)>> ELSE <<>>)
         \o ReglasDe(Tail(plan), tipo, nivel)

\* the rules for the key of the latest call
ReglasLlamada == ReglasDe(plan_general, llamada.tipo, llamada.nivel[1])

\* the latest block called plan_mantto and neither the connection nor the
\* query failed
LlamadaServida == llamada.llama /\ llamada.conecta /\ ~llamada.falla

\* C1: for a well-formed last-action date and a rule interval >= 0,
\* plan_mantto returns '0' when today <= date + interval and '1' otherwise
\* (due today is not overdue; interval 0 is overdue iff today > date).
C1_FlagFollowsDueDate ==
    (/\ LlamadaServida
     /\ FechaValida(llamada.fecha)
     /\ Len(ReglasLlamada) = 1
     /\ ReglasLlamada[1].dias_repeticion >= 0)
    => /\ llamada.exc = ""
       /\ llamada.ret =
            <<IF Antes(SumaDias(llamada.fecha, ReglasLlamada[1].dias_repeticion),
                       llamada.hoy)
              THEN "1" ELSE "0">>

\* the example of the specification at its boundary: 2020-01-01 plus 30 days
\* is due on 2020-01-31, and on that day the flag is '0'
C1_Witness ==
    /\ LlamadaServida
    /\ llamada.fecha = <<2020, 1, 1>>
    /\ Len(ReglasLlamada) = 1
    /\ ReglasLlamada[1].dias_repeticion = 30
    /\ llamada.hoy = <<2020, 1, 31>>
    /\ llamada.ret = <<"0">>

\* C2: when no rule is configured for the pair of a metric, the lookup
\* yields not_found and the driver skips the metric without raising, then
\* continues with the remaining metrics and records.
C2_MissingRuleIsSkipped ==
    (/\ LlamadaServida
     /\ Len(ReglasLlamada) = 0)
    => /\ llamada.exc = ""
       /\ pc # "error"

\* C3: a line emitted for a metric of record i carries the id_usuario of
\* record i.
C3_LineCarriesOwnId ==
    (llamada.entra /\ llamada.exc = "")
    => salida[Len(salida)].id_usuario = llamada.id_fila

\* C4: a metric whose level is null emits no line, issues no rule lookup and
\* raises no error.
C4_NullLevelSkipsMetric ==
    (llamada.i >= 1 /\ llamada.nivel = None)
    => /\ ~llamada.llama
       /\ salida = llamada.salida_antes
       /\ consultas = llamada.consultas_antes
       /\ llamada.exc = ""
       /\ pc # "error"

\* a pressure block skipped for a null level after a weight line was printed
C4_Witness ==
    /\ llamada.metrica = "presion"
    /\ llamada.nivel = None
    /\ Len(salida) >= 1
    /\ pc = "glucosa"

\* the lines the specification expects for a fetched row, with today's date
LineasDeFila(r) ==
    LET l(nombre, tipo, nivel, fecha) ==
            IF nivel = None THEN <<>>
            ELSE <<Linea(r.id_usuario, nombre,
                         FlagDe(Corte10(fecha),
                                ReglasDe(plan_general, tipo, nivel[1])[1].dias_repeticion,
                                hoy))>>
    IN  l("peso", 1, r.eval_peso, r.fecha_peso)
        \o l("presion", 3, r.eval_presion, r.fecha_sistolica)
        \o l("glucosa", 4, r.eval_glucosa, r.fecha_glucosa)

RECURSIVE LineasEsperadas(_)
LineasEsperadas(rows) ==
    IF rows = <<>> THEN <<>>
    ELSE LineasDeFila(Head(rows)) \o LineasEsperadas(Tail(rows))

\* every present level of every fetched row has a rule and a well-formed date
TodoConfigurado ==
    \A k \in 1..Len(db.rows) :
        LET r == db.rows[k]
            bien(tipo, nivel, fecha) ==
                nivel # None =>
                    /\ Len(ReglasDe(plan_general, tipo, nivel[1])) >= 1
                    /\ FechaValida(Corte10(fecha))
        IN  /\ bien(1, r.eval_peso, r.fecha_peso)
            /\ bien(3, r.eval_presion, r.fecha_sistolica)
            /\ bien(4, r.eval_glucosa, r.fecha_glucosa)

\* C5: when every present pair has a rule, the pass prints exactly one line
\* per present (record, metric) pair, in fetched order and in the order peso,
\* presion, glucosa, each with the record's id and the metric's flag.
C5_ExactlyTheExpectedLines ==
    (/\ pc \in {"fin", "error"}
     /\ exc \in {"", "NameError"}
     /\ llamada.i >= 1
     /\ LlamadaServida \/ ~llamada.llama
     /\ ticks = 0
     /\ TodoConfigurado)
    => /\ pc = "fin"
       /\ salida = LineasEsperadas(db.rows)

\* C6: every flag returned to the driver and printed is '1' or '0', and the
\* metric name of every line is peso, presion or glucosa.
C6_FlagsAndNames ==
    /\ \A k \in 1..Len(salida) :
          /\ salida[k].atraso \in Flags
          /\ salida[k].metrica \in {"peso", "presion", "glucosa"}
    /\ llamada.ret # <<>> => llamada.ret[1] \in Flags
    /\ (llamada.entra /\ llamada.exc = "") => llamada.ret # <<>>

\* a finished pass that printed both flags
C6_Witness ==
    /\ pc = "fin"
    /\ \E j \in 1..Len(salida), k \in 1..Len(salida) :
          salida[j].atraso = "0" /\ salida[k].atraso = "1"

\* C7: a failed connection or a failed rule query is reported by plan_mantto
\* as not_found, the false-like result of a missing rule, and no exception
\* reaches the driver.
C7_FailureIsNotFound ==
    (llamada.llama /\ (~llamada.conecta \/ llamada.falla))
    => /\ llamada.exc = ""
       /\ exc = ""

\* C8: a malformed date of an evaluated metric ends the batch with the
\* uncaught error of the date parser: no line for that metric nor for any
\* later one, and the lines printed before stay.
C8_MalformedDateEndsBatch ==
    /\ (llamada.llama /\ ~FechaValida(Corte10(llamada.fecha)))
       => /\ pc = "error"
          /\ exc = llamada.exc
          /\ exc # ""
          /\ salida = llamada.salida_antes
          /\ (LlamadaServida /\ Len(ReglasLlamada) >= 1) => exc = "ValueError"
    /\ pc = "error" => ~ENABLED Next

\* the parser's error ended a batch that had printed a line
C8_Witness ==
    /\ pc = "error"
    /\ exc = "ValueError"
    /\ llamada.llama
    /\ ~FechaValida(Corte10(llamada.fecha))
    /\ Len(salida) >= 1

\* a negative interval is accepted and the due date lies before the date
NegativeAccepted ==
    /\ llamada.exc = ""
    /\ llamada.ret # <<>>
    /\ llamada.ret[1] \in Flags
    /\ Antes(str10(strptime(llamada.fecha) + ReglasLlamada[1].dias_repeticion),
             llamada.fecha)

NegativeCase ==
    /\ LlamadaServida
    /\ FechaValida(llamada.fecha)
    /\ Len(ReglasLlamada) = 1
    /\ ReglasLlamada[1].dias_repeticion < 0

\* C9 as stated: a negative interval is accepted, gives an earlier due date
\* and is more lenient: every today flagged overdue under it is flagged
\* overdue under interval 0.
C9_NegativeIsMoreLenient ==
    NegativeCase
    => /\ NegativeAccepted
       /\ llamada.ret = <<"1">> => Vencida(llamada.fecha, 0, llamada.hoy)

\* C9 amended: a negative interval is accepted, gives an earlier due date
\* and is stricter: every today flagged overdue under interval 0 is flagged
\* overdue under the negative interval.
C9_NegativeIsStricter ==
    NegativeCase
    => /\ NegativeAccepted
       /\ Vencida(llamada.fecha, 0, llamada.hoy) => llamada.ret = <<"1">>

\* today is the last-action date: not overdue under interval 0, flagged
\* under the negative interval
C9_Witness ==
    /\ NegativeCase
    /\ llamada.hoy = llamada.fecha
    /\ llamada.ret = <<"1">>

\* C10: when several rule rows match the pair, plan_mantto uses the interval
\* of the first row of the result and ignores the others.
C10_FirstRowDecides ==
    (/\ LlamadaServida
     /\ FechaValida(llamada.fecha)
     /\ Len(ReglasLlamada) >= 2)
    => /\ Len(llamada.filas) = Len(ReglasLlamada)
       /\ llamada.exc = ""
       /\ llamada.ret =
            <<FlagDe(llamada.fecha, ReglasLlamada[1].dias_repeticion, llamada.hoy)>>

\* two matching rows whose intervals give different flags
C10_Witness ==
    /\ LlamadaServida
    /\ FechaValida(llamada.fecha)
    /\ Len(ReglasLlamada) = 2
    /\ llamada.ret = <<"1">>
    /\ FlagDe(llamada.fecha, ReglasLlamada[2].dias_repeticion, llamada.hoy) = "0"

----------------------------------------------------------------------------
\* C11: a pass of the driver, and every plan_mantto call in it, sends only
\* SELECT statements, and no step changes the contents of evaluaciones or of
\* plan_mantto_general.
C11_OnlySelects ==
    [][/\ evaluaciones' = evaluaciones
       /\ plan_general' = plan_general
       /\ \A k \in 1..Len(consultas') : consultas'[k].verbo = "SELECT"]_vars

\* a pass that ran to its end after several lookups and printed lines
C11_Witness ==
    /\ pc = "fin"
    /\ Len(consultas) >= 4
    /\ Len(salida) >= 3
    /\ llamada.llama

\* C12: each record is processed on its own: the lines printed for a record
\* are those its own columns, the rule table and the clock determine,
\* whatever records precede it in the pass.
C12_RecordProcessedAlone ==
    (/\ llamada.i >= 1
     /\ llamada.metrica = "glucosa" \/ pc = "error"
     /\ LlamadaServida \/ ~llamada.llama
     /\ ticks = 0
     /\ TodoConfigurado)
    => SubSeq(salida, llamada.inicio_registro + 1, Len(salida))
         = LineasDeFila(db.rows[llamada.i])

\* the days from a date to a later date, counted a month at a time
RECURSIVE DiasHasta(_, _)
DiasHasta(f, g) ==
    IF f[1] = g[1] /\ f[2] = g[2] THEN g[3] - f[3]
    ELSE (DiasDelMes(f[1], f[2]) - f[3] + 1) + DiasHasta(MesSiguiente(f), g)

\* the signed days from a date to another
DiasEntre(f, g) == IF Antes(g, f) THEN 0 - DiasHasta(g, f) ELSE DiasHasta(f, g)

\* C13: for a well-formed date, an integer interval and any today,
\* sumafecha returns the signed number of days from today to the calendar
\* date fecha + dias_repeticion: 0 exactly when that date is today, negative
\* exactly when it lies in the past.
C13_SignedDaysToDueDate ==
    (llamada.dias # <<>> /\ FechaValida(llamada.fecha))
    => /\ llamada.exc = ""
       /\ llamada.sumfec # <<>>
       /\ LET n == llamada.sumfec[1]
              vence == SumaDias(llamada.fecha, llamada.dias[1])
          IN  /\ n = DiasEntre(llamada.hoy, vence)
              /\ (n = 0) <=> (vence = llamada.hoy)
              /\ (n < 0) <=> Antes(vence, llamada.hoy)

\* a due date that crosses the leap day and lies in the past of today
C13_Witness ==
    /\ llamada.dias = <<2>>
    /\ llamada.fecha = <<2020, 2, 28>>
    /\ llamada.hoy = <<2020, 3, 3>>
    /\ llamada.sumfec = <<0 - 2>>

\* the flag plan_mantto gives for a date, an interval and a today
FlagDelCodigo(fecha, dias, fecha_del_reloj) ==
    Atraso(sumafecha(fecha, dias, fecha_del_reloj).val)

\* C15: the flag is monotone: when a call returns '1', the same date and
\* interval give '1' for every later today, and the same date and today give
\* '1' for every smaller interval.
C15_OverdueStaysOverdue ==
    (/\ LlamadaServida
     /\ llamada.ret = <<"1">>)
    => LET dias == PrimeraFila(llamada.filas).dias_repeticion
       IN  /\ \A h \in FechasPlan :
                 Antes(llamada.hoy, h) => FlagDelCodigo(llamada.fecha, dias, h) = "1"
           /\ \A d \in DiasPlan :
                 d < dias => FlagDelCodigo(llamada.fecha, d, llamada.hoy) = "1"

\* an overdue item with later todays and smaller intervals to compare with
C15_Witness ==
    /\ LlamadaServida
    /\ llamada.ret = <<"1">>
    /\ llamada.fecha = <<2020, 2, 27>>
    /\ llamada.hoy = <<2020, 3, 1>>
    /\ PrimeraFila(llamada.filas).dias_repeticion = 2

\* the type code, level column and date column the specification gives for
\* a metric
ColumnasDe(metrica, r) ==
    IF metrica = "peso" THEN
        [tipo |-> 1, nivel |-> r.eval_peso, fecha |-> r.fecha_peso]
    ELSE IF metrica = "presion" THEN
        [tipo |-> 3, nivel |-> r.eval_presion, fecha |-> r.fecha_sistolica]
    ELSE
        [tipo |-> 4, nivel |-> r.eval_glucosa, fecha |-> r.fecha_glucosa]

\* C14: each metric is evaluated with its own type code, its own level and
\* its own date column: the block runs exactly when the metric's own level is
\* present, its lookup asks for (own code, own level), and the flag printed
\* is the one of the metric's own date.
C14_OwnCodeLevelAndDate ==
    llamada.i >= 1 =>
        LET c == ColumnasDe(llamada.metrica, db.rows[llamada.i])
            reglas == ReglasDe(plan_general, c.tipo, c.nivel[1])
        IN  /\ llamada.entra <=> (c.nivel # None)
            /\ (llamada.llama /\ llamada.conecta) =>
                   consultas[Len(consultas)].where =
                       [clase |-> "regla", medicion |-> c.tipo,
                        evaluacion |-> c.nivel[1]]
            /\ (LlamadaServida /\ reglas # <<>> /\ FechaValida(Corte10(c.fecha))) =>
                   llamada.ret =
                       <<FlagDe(Corte10(c.fecha), reglas[1].dias_repeticion, llamada.hoy)>>

\* a pressure lookup with the pressure level 2 whose flag differs from the
\* one the weight's date would give
C14_Witness ==
    /\ LlamadaServida
    /\ llamada.metrica = "presion"
    /\ consultas[Len(consultas)].where =
           [clase |-> "regla", medicion |-> 3, evaluacion |-> 2]
    /\ llamada.ret = <<"0">>
    /\ db.rows[llamada.i].eval_peso = <<1>>
    /\ salida[Len(salida)] = Linea(llamada.id_fila, "presion", "0")

\* the rule query of the latest call
ConsultaLlamada ==
    [verbo |-> "SELECT", campos |-> "dias_repeticion",
     nombre |-> "plan_mantto_general",
     where |-> [clase |-> "regla", medicion |-> llamada.tipo,
                evaluacion |-> llamada.nivel[1]]]

\* the number of non-null levels in the fetched rows
RECURSIVE ParesPresentes(_)
ParesPresentes(rows) ==
    IF rows = <<>> THEN 0
    ELSE LET r == Head(rows)
             n(nivel) == IF nivel = None THEN 0 ELSE 1
         IN  n(r.eval_peso) + n(r.eval_presion) + n(r.eval_glucosa)
                 + ParesPresentes(Tail(rows))

\* C16 as stated: every plan_mantto call issues exactly one rule query, and
\* a pass issues exactly one rule query per present (record, metric) pair.
C16_OneQueryPerCallAndPair ==
    /\ llamada.llama => consultas = Append(llamada.consultas_antes, ConsultaLlamada)
    /\ (pc \in {"fin", "error"} /\ db.rows # <<>>)
          => Len(consultas) - 1 = ParesPresentes(db.rows)

\* C16: the rule is looked up per evaluation and never cached: every
\* plan_mantto call builds a new instance and, when its connection is
\* established, sends exactly one rule query whose result alone fills the
\* instance, even when the same pair was asked before; a call whose
\* connection fails sends none; a pass that runs to its end has sent exactly
\* one rule query per present (record, metric) pair.
C16_OneQueryPerServedCall ==
    /\ (llamada.llama /\ llamada.conecta) =>
          /\ consultas = Append(llamada.consultas_antes, ConsultaLlamada)
          /\ mantto.conexion # "ninguna"
          /\ mantto.rows =
                IF llamada.falla THEN <<>>
                ELSE [k \in 1..Len(ReglasLlamada) |->
                         [dias_repeticion |-> ReglasLlamada[k].dias_repeticion]]
    /\ (llamada.llama /\ ~llamada.conecta) =>
          /\ consultas = llamada.consultas_antes
          /\ mantto.conexion = "ninguna"
    /\ (pc = "fin" /\ db.rows # <<>>)
          => Len(consultas) - 1 = ParesPresentes(db.rows)

\* a pass that ran to its end and asked for the same pair twice
C16_Witness ==
    /\ pc = "fin"
    /\ llamada.llama
    /\ \E k \in 2..(Len(consultas) - 1) : consultas[k] = consultas[Len(consultas)]

----------------------------------------------------------------------------
(* Claims about the operations of Database *)

\* the instance the latest operation acted on, as it is now
InstanciaLlamada == Instancia(llamada.inst)

\* C17: get returns True exactly when its query executes without error and
\* returns at least one row, and then rows holds the returned rows and
\* numfilas their count; it returns False on zero rows and on failure, and
\* then rows and numfilas keep the values they had.
C17_GetStoresRowsOnSuccess ==
    llamada.op = "get" =>
        /\ llamada.ret <=> (llamada.ejecutada /\ Len(llamada.filas) >= 1)
        /\ llamada.ret =>
              /\ InstanciaLlamada.rows = llamada.filas
              /\ InstanciaLlamada.numfilas = <<Len(llamada.filas)>>
        /\ ~llamada.ret =>
              /\ InstanciaLlamada.rows = llamada.antes.rows
              /\ InstanciaLlamada.numfilas = llamada.antes.numfilas

\* a get that found the two rules of the key (1, 1)
C17_Witness ==
    /\ llamada.op = "get"
    /\ llamada.ret
    /\ InstanciaLlamada.rows = <<[dias_repeticion |-> 30], [dias_repeticion |-> 45]>>
    /\ InstanciaLlamada.numfilas = <<2>>

\* the instance the latest operation did not act on
OtraInstancia == Instancia(IF llamada.inst = "db" THEN "mantto" ELSE "db")

OperacionesDb ==
    {"agregar", "add", "modificar", "eliminar", "consultar", "get", "getqry"}

\* C18: the table descriptor (nombre, id, campos) belongs to the instance:
\* constructing an instance does not change the descriptor from which another
\* existing instance builds its statements.
C18_DescriptorIsPerInstance ==
    (/\ llamada.op = "construir"
     /\ OtraInstancia.conexion # "ninguna")
    => tabla = llamada.tabla_antes

\* C19: once an operation has executed its query successfully the
\* connection of the instance is closed, and an operation on an instance
\* whose connection is closed sends no statement, returns False and leaves
\* the connection closed.
C19_OneSuccessfulQueryPerInstance ==
    llamada.op \in OperacionesDb =>
        /\ llamada.ejecutada => InstanciaLlamada.conexion = "cerrada"
        /\ llamada.antes.conexion = "cerrada" =>
              /\ llamada.enviadas = <<>>
              /\ ~llamada.ret
              /\ InstanciaLlamada.conexion = "cerrada"

\* C20: every operation returns with the connection of its instance closed,
\* whether its query succeeded or failed.
C20_ConnectionClosedOnReturn ==
    llamada.op \in OperacionesDb => InstanciaLlamada.conexion = "cerrada"

\* C21: no operation raises on a query failure; agregar, add, modificar and
\* eliminar return True exactly when their statement executed without error;
\* consultar, get and getqry return True exactly when their query executed
\* without error and returned at least one row.
C21_ReturnTellsSuccess ==
    llamada.op \in OperacionesDb =>
        /\ llamada.exc = ""
        /\ llamada.op \in {"agregar", "add", "modificar", "eliminar"} =>
              (llamada.ret <=> llamada.ejecutada)
        /\ llamada.op \in {"consultar", "get", "getqry"} =>
              (llamada.ret <=> (llamada.ejecutada /\ Len(llamada.filas) >= 1))

====
